---- MODULE Spec2Model ----
(***************************************************************************)
(* Bus seat-map editor: configuration state, seat numbering, the           *)
(* seat -> person assignment ledger with its drag-and-drop operations,     *)
(* the roster of people and the automatic assignment.                      *)
(*                                                                         *)
(* Seat ids are the strings the code builds, `${row}${letter}` on the main *)
(* deck and `U${row}${letter}` on the upper deck.  A person id is the pair *)
(* <<t, k>>: t is the Date.now() reading, k = 0 for a person typed in      *)
(* (id = Date.now().toString()) and k >= 1 the Math.random() draw appended *)
(* to the id of an imported person.                                        *)
(***************************************************************************)
EXTENDS Integers, Sequences, FiniteSets, TLC

VARIABLES
  mainDeckRows,           \* config.mainDeckRows
  upperDeckRows,          \* config.upperDeckRows
  hasUpperDeck,           \* config.hasUpperDeck
  lastRowSeats,           \* config.lastRowSeats (4 | 5)
  entranceRows,           \* config.entranceRows
  tableRows,              \* config.tableRows
  upperDeckEntranceRows,  \* config.upperDeckEntranceRows
  emptySpaces,            \* config.emptySpaces : Set<string>
  tourGuideSeats,         \* config.tourGuideSeats : string[]
  driverSeats,            \* config.driverSeats : string[]
  people,                 \* config.people : Person[]
  seatAssignments,        \* config.seatAssignments : Map seatId -> personId
  now,                    \* the reading of Date.now()
  rnd,                    \* number of Math.random() draws made so far
  pendingImport,          \* Papa.parse calls whose complete callback has not run
  seatNumbers,            \* config.seatNumbers : Map seatId -> string
  busName,                \* config.busName
  licensePlates,          \* config.licensePlates
  savedConfigId,          \* the id of the stored record, NoRecord for null
  saves,                  \* the calls of saveConfiguration that are awaiting the store
  store,                  \* the rows of bus_configurations: id -> config_data
  issued,                 \* number of save requests sent so far
  applied,                \* the requests whose response set savedConfigId, in order
  shares,                 \* the calls of shareConfiguration that are awaiting their save
  last                    \* the last operation: its name, its arguments, its outcome

vars == <<mainDeckRows, upperDeckRows, hasUpperDeck, lastRowSeats, entranceRows,
          tableRows, upperDeckEntranceRows, emptySpaces, tourGuideSeats,
          driverSeats, people, seatAssignments, now, rnd, pendingImport, seatNumbers,
          busName, licensePlates, savedConfigId, saves, store, issued, applied,
          shares, last>>

geometry == <<mainDeckRows, upperDeckRows, hasUpperDeck, lastRowSeats,
              entranceRows, tableRows, upperDeckEntranceRows>>

\* what saving reads and writes besides the configuration
saveState == <<busName, licensePlates, savedConfigId, saves, store, issued, applied,
               shares>>

(***************************************************************************)
(* Bounds of the model.                                                    *)
(***************************************************************************)
MaxRows == 1        \* main deck rows of an editing session
NumRows == 2        \* main deck rows of the configurations that are numbered
NumUpperRows == 1   \* upper deck rows of the configurations that are numbered
MaxPeople == 2      \* roster length of an editing session
MaxClock == 3       \* last reading of Date.now()
MaxMarks == 2       \* seats marked empty, tour guide or driver by clicks
MaxImport == 3      \* records of one imported file
MaxRoster == 3      \* roster length of a session of imports
MaxPending == 1     \* file parses in flight
MaxDraws == 3       \* readings of Math.random() in a session
MaxEmpty == 1       \* empty spaces of a session of imports
MaxSaves == 2       \* save requests of a session
MaxOverrides == 1   \* seat numbers typed in

(***************************************************************************)
(* Program constants.                                                      *)
(***************************************************************************)
MinRows == 1            \* Math.max(1, ...) of the row controls
MaxMainDeckRows == 25    \* Math.min(25, ...) of the main deck row controls
MaxUpperDeckRows == 15   \* Math.min(15, ...) of the upper deck row controls
DefaultLastRowSeats == 5
StandardRowSeats == 4

BirthDates == {1990, 2000}   \* getTime() of the birth dates that occur
NoBirth == 0                 \* birthDate undefined
NoSeat == ""
NoId == <<0, 0>>
NoRecord == 0                \* savedConfigId null

(***************************************************************************)
(* Seat identifiers.                                                       *)
(***************************************************************************)
Letters == <<"A", "B", "C", "D", "E">>

\* String.fromCharCode(65 + seatIndex), seatIndex counted from 0
seatLetter(seatIndex) == Letters[seatIndex + 1]

MainSeatId(row, seatIndex) == ToString(row) \o seatLetter(seatIndex)

UpperSeatId(row, seatIndex) == "U" \o ToString(row) \o seatLetter(seatIndex)

\* seatsInRow of the main deck loops
seatsInRow(rows, lastSeats, row) == IF row = rows THEN lastSeats ELSE StandardRowSeats

\* the seat ids of one main deck row, columns A, B, C, ... in order
MainRowSeats(rows, lastSeats, row) ==
  [i \in 1..seatsInRow(rows, lastSeats, row) |-> MainSeatId(row, i - 1)]

\* the seat ids of one upper deck row
UpperRowSeats(row) == [i \in 1..StandardRowSeats |-> UpperSeatId(row, i - 1)]

RECURSIVE MainDeckSeats(_, _, _)
\* rows row..rows of the main deck, row-major
MainDeckSeats(rows, lastSeats, row) ==
  IF row > rows THEN << >>
  ELSE MainRowSeats(rows, lastSeats, row) \o MainDeckSeats(rows, lastSeats, row + 1)

RECURSIVE UpperDeckSeats(_, _)
UpperDeckSeats(rows, row) ==
  IF row > rows THEN << >>
  ELSE UpperRowSeats(row) \o UpperDeckSeats(rows, row + 1)

Range(s) == {s[i] : i \in 1..Len(s)}

\* config.tourGuideSeats.includes(seatId), config.driverSeats.includes(seatId)
includes(arr, x) == \E i \in 1..Len(arr) : arr[i] = x

(***************************************************************************)
(* The Map operations the ledger is updated with.                          *)
(***************************************************************************)
EmptyMap == [s \in {} |-> NoId]

MapHas(m, k) == k \in DOMAIN m

MapSet(m, k, v) == [s \in DOMAIN m \cup {k} |-> IF s = k THEN v ELSE m[s]]

MapDelete(m, k) == [s \in DOMAIN m \ {k} |-> m[s]]

\* new Set(seatAssignments.values())
MapValues(m) == {m[s] : s \in DOMAIN m}

\* useState of what saving uses: no name, no plates, nothing saved
InitSaveState ==
  /\ seatNumbers = EmptyMap
  /\ busName = << >>
  /\ licensePlates = << >>
  /\ savedConfigId = NoRecord
  /\ saves = {}
  /\ store = EmptyMap
  /\ issued = 0
  /\ applied = << >>
  /\ shares = {}

(***************************************************************************)
(* Text typed into an input: a sequence of characters.                     *)
(***************************************************************************)
RECURSIVE trimStart(_)
trimStart(t) == IF t # << >> /\ Head(t) = " " THEN trimStart(Tail(t)) ELSE t

RECURSIVE trimEnd(_)
trimEnd(t) ==
  IF t # << >> /\ t[Len(t)] = " " THEN trimEnd(SubSeq(t, 1, Len(t) - 1)) ELSE t

\* String.prototype.trim
trim(t) == trimEnd(trimStart(t))

TypedNames == {<< >>, <<" ">>, <<"A">>, <<" ", "A", " ">>}

\* renderMainDeck with the entrance of the narrower layout, in place of the
\* seats B and C
RenderedMainRowBC(row) ==
  IF row \in tableRows THEN {}
  ELSE {MainSeatId(row, i) : i \in {j \in 0..(seatsInRow(mainDeckRows, lastRowSeats, row) - 1) :
                                      ~(row \in entranceRows /\ j \in {1, 2})}}

(***************************************************************************)
(* The rendered layout: the seat ids a Seat component exists for.          *)
(***************************************************************************)
\* renderMainDeck: the Seat components of one row
RenderedMainRow(row) ==
  IF row \in tableRows THEN {}
  ELSE {MainSeatId(row, i) : i \in {j \in 0..(seatsInRow(mainDeckRows, lastRowSeats, row) - 1) :
                                      ~(row \in entranceRows /\ j \in {2, 3})}}

\* renderUpperDeck: the Seat components of one row
RenderedUpperRow(row) ==
  {UpperSeatId(row, i) : i \in {j \in 0..(StandardRowSeats - 1) :
                                  ~(row \in upperDeckEntranceRows /\ j \in {2, 3})}}

RenderedSeats ==
  UNION {RenderedMainRow(row) : row \in 1..mainDeckRows}
  \cup (IF hasUpperDeck THEN UNION {RenderedUpperRow(row) : row \in 1..upperDeckRows} ELSE {})

\* Seat: assignedPerson = people.find(p => p.id === assignedPersonId)
hasPerson(seatId) ==
  /\ MapHas(seatAssignments, seatId)
  /\ \E i \in 1..Len(people) : people[i].id = seatAssignments[seatId]

(***************************************************************************)
(* The ledger operations.                                                  *)
(***************************************************************************)
\* handleDragEnd: validate seat is available (not empty space, not tour guide)
InvalidTarget(empty, guides, targetSeatId) ==
  targetSeatId \in empty \/ includes(guides, targetSeatId)

\* the seat-to-seat branch of handleDragEnd with the source entry left in place
SeatToSeatKeepSource(prev, personId, fromSeatId, targetSeatId) ==
  MapSet(prev, targetSeatId, personId)

\* a move that overwrites the target's occupant instead of swapping
SeatToSeatNoSwap(prev, personId, fromSeatId, targetSeatId) ==
  MapDelete(MapSet(prev, targetSeatId, personId), fromSeatId)

\* handleDragEnd, seat to seat: swap if occupied
SeatToSeat(prev, personId, fromSeatId, targetSeatId) ==
  LET targetOccupant == IF MapHas(prev, targetSeatId) THEN prev[targetSeatId] ELSE NoId
      moved == MapDelete(MapSet(prev, targetSeatId, personId), fromSeatId)
  IN  IF targetOccupant # NoId /\ targetOccupant # personId
      THEN MapSet(moved, fromSeatId, targetOccupant)
      ELSE moved

\* an assignment that leaves the person's earlier seat in the ledger
FromListKeepOld(prev, personId, targetSeatId) == MapSet(prev, targetSeatId, personId)

\* handleDragEnd, from the people list: ensure uniqueness then assign
FromList(prev, personId, targetSeatId) ==
  LET kept == {s \in DOMAIN prev : prev[s] # personId}
  IN  MapSet([s \in kept |-> prev[s]], targetSeatId, personId)

\* an unassign that clears the whole ledger
UnassignAll(assignments, seatId) == EmptyMap

\* handleUnassignToPeople: newAssignments.delete(seatId)
Unassign(assignments, seatId) == MapDelete(assignments, seatId)

\* the onSeatAssignment callback given to BusLayout; personId NoId is null,
\* fromSeatId NoSeat is undefined
onSeatAssignment(prev, seatId, personId, fromSeatId) ==
  IF personId # NoId
  THEN IF fromSeatId # NoSeat
       THEN LET targetOccupant == IF MapHas(prev, seatId) THEN prev[seatId] ELSE NoId
                moved == MapDelete(MapSet(prev, seatId, personId), fromSeatId)
            IN  IF targetOccupant # NoId /\ targetOccupant # personId
                THEN MapSet(moved, fromSeatId, targetOccupant)
                ELSE moved
       ELSE LET kept == {s \in DOMAIN prev : prev[s] # personId}
            IN  MapSet([s \in kept |-> prev[s]], seatId, personId)
  ELSE MapDelete(prev, seatId)

Op(op, person, from, seat, ok, count) ==
  [op |-> op, person |-> person, from |-> from, seat |-> seat, ok |-> ok, count |-> count,
   file |-> << >>]

PeopleDrop == "people-drop"

\* event.over is null: the drag ended over no droppable
NoOver == "null"

\* active.data.current of a person dragged from the list (fromSeatId undefined)
\* or from a seat
PersonData(personId, fromSeatId) ==
  [type |-> "person", personId |-> personId, fromSeatId |-> fromSeatId]

\* active.data.current undefined: the dragged seat shows no person any more
NoData == [type |-> "undefined", personId |-> NoId, fromSeatId |-> NoSeat]

\* the ledger after handleDragEnd(event) went past its early returns
droppedLedger(prev, personId, fromSeatId, overId) ==
  IF overId = PeopleDrop
  THEN IF fromSeatId # NoSeat THEN Unassign(prev, fromSeatId) ELSE prev
  ELSE IF InvalidTarget(emptySpaces, tourGuideSeats, overId)
       THEN prev
       ELSE IF fromSeatId # NoSeat
            THEN SeatToSeat(prev, personId, fromSeatId, overId)
            ELSE FromList(prev, personId, overId)

\* what handleDragEnd(event) did, for the record of the last operation
droppedOp(personId, fromSeatId, overId) ==
  IF overId = PeopleDrop
  THEN IF fromSeatId # NoSeat
       THEN Op("unassign", personId, fromSeatId, fromSeatId, TRUE, 0)
       ELSE Op("none", personId, NoSeat, NoSeat, FALSE, 0)
  ELSE Op(IF fromSeatId # NoSeat THEN "moveOrSwap" ELSE "assign", personId, fromSeatId, overId,
          ~InvalidTarget(emptySpaces, tourGuideSeats, overId), 0)

\* handleDragEnd(event): data = active.data.current, overId = over.id or NoOver
handleDragEnd(data, overId) ==
  /\ IF overId = NoOver \/ data.type # "person"
     THEN /\ seatAssignments' = seatAssignments
          /\ last' = Op("none", data.personId, data.fromSeatId, NoSeat, FALSE, 0)
     ELSE /\ seatAssignments' =
               droppedLedger(seatAssignments, data.personId, data.fromSeatId, overId)
          /\ last' = droppedOp(data.personId, data.fromSeatId, overId)
  /\ UNCHANGED <<saveState, seatNumbers>>
  /\ UNCHANGED <<geometry, emptySpaces, tourGuideSeats, driverSeats, people, now, rnd,
                 pendingImport>>

\* a person of the list is dragged (DraggablePerson) and dropped on a seat
DropFromList ==
  \E i \in 1..Len(people), target \in RenderedSeats :
    handleDragEnd(PersonData(people[i].id, NoSeat), target)

\* the person sitting on a seat is dragged (Seat's useDraggable, enabled when
\* the seat shows a person) and dropped on a seat
DropSeatToSeat ==
  \E from \in RenderedSeats, target \in RenderedSeats :
    /\ from \notin emptySpaces
    /\ hasPerson(from)
    /\ handleDragEnd(PersonData(seatAssignments[from], from), target)

\* a drag ends over the people panel
DropSeatToPeople ==
  \E from \in RenderedSeats :
    /\ from \notin emptySpaces
    /\ hasPerson(from)
    /\ handleDragEnd(PersonData(seatAssignments[from], from), PeopleDrop)

\* a person of the list is dropped back on the people panel
DropListToPeople ==
  \E i \in 1..Len(people) : handleDragEnd(PersonData(people[i].id, NoSeat), PeopleDrop)

DropToPeople == DropSeatToPeople \/ DropListToPeople

\* a drag of a person, of the list or of a seat, ends over no droppable
DropOutside ==
  \/ \E i \in 1..Len(people) : handleDragEnd(PersonData(people[i].id, NoSeat), NoOver)
  \/ \E from \in RenderedSeats :
       /\ from \notin emptySpaces
       /\ hasPerson(from)
       /\ handleDragEnd(PersonData(seatAssignments[from], from), NoOver)

\* a drag whose data is not a person ends over a seat or over the people panel
DropWithoutPerson ==
  \E overId \in RenderedSeats \cup {PeopleDrop} : handleDragEnd(NoData, overId)

\* Seat.useDrop (react-dnd): drop: item => onSeatAssignment && !isEmpty && onSeatAssignment(seatId, item.id)
SeatDrop ==
  \E i \in 1..Len(people), seatId \in RenderedSeats :
    /\ IF seatId \notin emptySpaces
       THEN /\ seatAssignments' = onSeatAssignment(seatAssignments, seatId, people[i].id, NoSeat)
            /\ last' = Op("seatDrop", people[i].id, NoSeat, seatId, TRUE, 0)
       ELSE /\ seatAssignments' = seatAssignments
            /\ last' = Op("seatDrop", people[i].id, NoSeat, seatId, FALSE, 0)
    /\ UNCHANGED <<saveState, seatNumbers>>
    /\ UNCHANGED <<geometry, emptySpaces, tourGuideSeats, driverSeats, people, now, rnd,
                   pendingImport>>

(***************************************************************************)
(* Clicks on a seat: empty spaces, tour guide and driver seats.            *)
(***************************************************************************)
\* a toggle that never removes
toggleAddOnly(set, seatId) == set \cup {seatId}

\* toggleEmptySpace: the new Set
toggleEmptySpace(set, seatId) ==
  IF seatId \in set THEN set \ {seatId} ELSE set \cup {seatId}

\* onToggleTourGuideSeat / onToggleDriverSeat: the new array
toggleArray(arr, seatId) ==
  IF includes(arr, seatId)
  THEN SelectSeq(arr, LAMBDA x : x # seatId)
  ELSE Append(arr, seatId)

\* the model's cap on the marks set by clicks
MarksLeft == Cardinality(emptySpaces) + Len(tourGuideSeats) + Len(driverSeats) < MaxMarks

\* Seat.handleClick without Ctrl: onToggleEmptySpace(seatId), unless the seat shows a person
ClickSeat ==
  \E seatId \in RenderedSeats :
    /\ ~hasPerson(seatId)
    /\ seatId \in emptySpaces \/ MarksLeft
    /\ emptySpaces' = toggleEmptySpace(emptySpaces, seatId)
    /\ last' = Op("toggleEmpty", NoId, NoSeat, seatId, TRUE, 0)
    /\ UNCHANGED <<saveState, seatNumbers>>
    /\ UNCHANGED <<geometry, tourGuideSeats, driverSeats, people, seatAssignments, now, rnd,
                   pendingImport>>

\* Seat.handleClick with Ctrl: onToggleTourGuideSeat(seatId)
CtrlClickSeat ==
  \E seatId \in RenderedSeats :
    /\ ~hasPerson(seatId)
    /\ includes(tourGuideSeats, seatId) \/ MarksLeft
    /\ tourGuideSeats' = toggleArray(tourGuideSeats, seatId)
    /\ last' = Op("toggleTourGuide", NoId, NoSeat, seatId, TRUE, 0)
    /\ UNCHANGED <<saveState, seatNumbers>>
    /\ UNCHANGED <<geometry, emptySpaces, driverSeats, people, seatAssignments, now, rnd,
                   pendingImport>>

\* Seat.handleClick with Ctrl+Shift: onToggleDriverSeat(seatId)
CtrlShiftClickSeat ==
  \E seatId \in RenderedSeats :
    /\ ~hasPerson(seatId)
    /\ includes(driverSeats, seatId) \/ MarksLeft
    /\ driverSeats' = toggleArray(driverSeats, seatId)
    /\ last' = Op("toggleDriver", NoId, NoSeat, seatId, TRUE, 0)
    /\ UNCHANGED <<saveState, seatNumbers>>
    /\ UNCHANGED <<geometry, emptySpaces, tourGuideSeats, people, seatAssignments, now, rnd,
                   pendingImport>>

\* TourGuideConfig.addPresetSeats: 'seats-1-2', 'seats-3-4', 'front-4'
Presets == {<<"1A", "1B">>, <<"1C", "1D">>, <<"1A", "1B", "1C", "1D">>}

\* TourGuideConfig: a preset button, or Clear All
SetTourGuideSeats ==
  \E seats \in Presets \cup {<< >>} :
    /\ tourGuideSeats' = seats
    /\ last' = Op("setTourGuide", NoId, NoSeat, NoSeat, TRUE, 0)
    /\ UNCHANGED <<saveState, seatNumbers>>
    /\ UNCHANGED <<geometry, emptySpaces, driverSeats, people, seatAssignments, now, rnd,
                   pendingImport>>

(***************************************************************************)
(* The roster.                                                             *)
(***************************************************************************)
Person(id, name, birthDate) == [id |-> id, name |-> name, birthDate |-> birthDate]

\* PeopleManager.addPerson: id Date.now().toString(), name newPersonName.trim()
addPerson(list, text) ==
  IF trim(text) # << >>
  THEN Append(list, Person(<<now, 0>>, trim(text), NoBirth))
  ELSE list

\* what removing a person does to the ledger: onPeopleChange sets config.people only
removePersonLedger(assignments, id) == assignments

\* PeopleManager.removePerson: people.filter(p => p.id !== id)
removePerson(list, id) == SelectSeq(list, LAMBDA p : p.id # id)

AddPerson ==
  \E text \in TypedNames :
    /\ Len(people) < MaxPeople
    /\ people' = addPerson(people, text)
    /\ last' = Op("addPerson", <<now, 0>>, NoSeat, NoSeat, trim(text) # << >>, 0)
    /\ UNCHANGED <<saveState, seatNumbers>>
    /\ UNCHANGED <<geometry, emptySpaces, tourGuideSeats, driverSeats, seatAssignments, now,
                   rnd, pendingImport>>

\* the X button of a person of the list
RemovePerson ==
  \E i \in 1..Len(people) :
    /\ people' = removePerson(people, people[i].id)
    /\ seatAssignments' = removePersonLedger(seatAssignments, people[i].id)
    /\ last' = Op("removePerson", people[i].id, NoSeat, NoSeat, TRUE, 0)
    /\ UNCHANGED <<saveState, seatNumbers>>
    /\ UNCHANGED <<geometry, emptySpaces, tourGuideSeats, driverSeats, now, rnd,
                   pendingImport>>

\* time passes: Date.now() reads a later millisecond
Tick ==
  /\ now < MaxClock
  /\ now' = now + 1
  /\ UNCHANGED <<saveState, seatNumbers>>
  /\ UNCHANGED <<geometry, emptySpaces, tourGuideSeats, driverSeats, people, seatAssignments,
                 rnd, pendingImport, last>>

(***************************************************************************)
(* An editing session: the roster and the drops.                           *)
(***************************************************************************)
\* useState of BusConfigurator, with the row count brought down to its minimum
Init ==
  /\ mainDeckRows \in MinRows..MaxRows
  /\ upperDeckRows = 3
  /\ hasUpperDeck = FALSE
  /\ lastRowSeats = DefaultLastRowSeats
  /\ entranceRows = {}
  /\ tableRows = {}
  /\ upperDeckEntranceRows = {}
  /\ emptySpaces = {}
  /\ tourGuideSeats = << >>
  /\ driverSeats = << >>
  /\ people = << >>
  /\ seatAssignments = EmptyMap
  /\ now = 1
  /\ rnd = 0
  /\ pendingImport = << >>
  /\ InitSaveState
  /\ last = Op("init", NoId, NoSeat, NoSeat, TRUE, 0)

Next ==
  \/ AddPerson
  \/ RemovePerson
  \/ Tick
  \/ DropFromList
  \/ DropSeatToSeat
  \/ DropToPeople
  \/ SeatDrop

Spec == Init /\ [][Next]_vars

\* the session with the seat marks: empty spaces, tour guide and driver seats
NextReserved ==
  \/ AddPerson
  \/ Tick
  \/ ClickSeat
  \/ CtrlClickSeat
  \/ CtrlShiftClickSeat
  \/ DropFromList
  \/ DropSeatToSeat
  \/ SeatDrop

SpecReserved == Init /\ [][NextReserved]_vars

(***************************************************************************)
(* Seat numbering (BusLayout.seatNumberMap).                               *)
(***************************************************************************)
\* the fields of config the numbering reads
Config ==
  [mainDeckRows |-> mainDeckRows, upperDeckRows |-> upperDeckRows,
   hasUpperDeck |-> hasUpperDeck, lastRowSeats |-> lastRowSeats,
   entranceRows |-> entranceRows, tableRows |-> tableRows,
   upperDeckEntranceRows |-> upperDeckEntranceRows, emptySpaces |-> emptySpaces]

SeatIdOf(deck, row, seatIndex) ==
  IF deck = "main" THEN MainSeatId(row, seatIndex) ELSE UpperSeatId(row, seatIndex)

\* a numbering whose counter also advances on empty spaces
countEmptyToo(cfg, sid, acc) ==
  IF sid \notin cfg.emptySpaces
  THEN [counter |-> acc.counter + 1, map |-> MapSet(acc.map, sid, ToString(acc.counter + 1))]
  ELSE [counter |-> acc.counter + 1, map |-> acc.map]

\* if (!config.emptySpaces.has(sid)) { counter += 1; map.set(sid, String(counter)); }
numberSeat(cfg, sid, acc) ==
  IF sid \notin cfg.emptySpaces
  THEN [counter |-> acc.counter + 1, map |-> MapSet(acc.map, sid, ToString(acc.counter + 1))]
  ELSE acc

RECURSIVE numberRowCountGap(_, _, _, _, _, _, _)
\* the loop over seatIndex with a counter that advances on the entrance
\* placeholders too
numberRowCountGap(cfg, deck, row, isEntranceRow, n, seatIndex, acc) ==
  IF seatIndex >= n THEN acc
  ELSE IF isEntranceRow /\ seatLetter(seatIndex) \in {"C", "D"}
       THEN numberRowCountGap(cfg, deck, row, isEntranceRow, n, seatIndex + 1,
                              [acc EXCEPT !.counter = @ + 1])
       ELSE numberRowCountGap(cfg, deck, row, isEntranceRow, n, seatIndex + 1,
                              numberSeat(cfg, SeatIdOf(deck, row, seatIndex), acc))

RECURSIVE numberRow(_, _, _, _, _, _, _)
\* the loop over seatIndex of one row, from seatIndex on
numberRow(cfg, deck, row, isEntranceRow, n, seatIndex, acc) ==
  IF seatIndex >= n THEN acc
  ELSE IF isEntranceRow /\ seatLetter(seatIndex) \in {"C", "D"}
       THEN numberRow(cfg, deck, row, isEntranceRow, n, seatIndex + 1, acc)
       ELSE numberRow(cfg, deck, row, isEntranceRow, n, seatIndex + 1,
                      numberSeat(cfg, SeatIdOf(deck, row, seatIndex), acc))

RECURSIVE numberMainDeck(_, _, _)
\* the loop over the main deck rows, from row on
numberMainDeck(cfg, row, acc) ==
  IF row > cfg.mainDeckRows THEN acc
  ELSE IF row \in cfg.tableRows
       THEN numberMainDeck(cfg, row + 1, acc)
       ELSE numberMainDeck(cfg, row + 1,
              numberRow(cfg, "main", row, row \in cfg.entranceRows,
                        seatsInRow(cfg.mainDeckRows, cfg.lastRowSeats, row), 0, acc))

RECURSIVE numberUpperDeck(_, _, _)
\* the loop over the upper deck rows, from row on
numberUpperDeck(cfg, row, acc) ==
  IF row > cfg.upperDeckRows THEN acc
  ELSE numberUpperDeck(cfg, row + 1,
         numberRow(cfg, "upper", row, row \in cfg.upperDeckEntranceRows,
                   StandardRowSeats, 0, acc))

\* seatNumberMap: seat id -> String(counter)
seatNumberMap(cfg) ==
  LET main == numberMainDeck(cfg, 1, [counter |-> 0, map |-> EmptyMap])
  IN  (IF cfg.hasUpperDeck THEN numberUpperDeck(cfg, 1, main) ELSE main).map

\* the displayLabel renderMainDeck and renderUpperDeck hand to a Seat:
\* seatNumberMap.get(seatId) ?? ""
displayLabel(cfg, seatId) ==
  IF MapHas(seatNumberMap(cfg), seatId) THEN seatNumberMap(cfg)[seatId] ELSE ""

(***************************************************************************)
(* The numbering of the configurations: the deck configuration is drawn,   *)
(* seats are then marked empty and restored by clicks.                     *)
(***************************************************************************)
InitNumbering ==
  /\ mainDeckRows \in MinRows..NumRows
  /\ upperDeckRows \in MinRows..NumUpperRows
  /\ hasUpperDeck \in BOOLEAN
  /\ lastRowSeats \in {StandardRowSeats, DefaultLastRowSeats}
  /\ entranceRows \in SUBSET (1..mainDeckRows)
  /\ tableRows \in SUBSET (1..mainDeckRows)
  /\ upperDeckEntranceRows \in SUBSET (1..upperDeckRows)
  /\ emptySpaces = {}
  /\ tourGuideSeats = << >>
  /\ driverSeats = << >>
  /\ people = << >>
  /\ seatAssignments = EmptyMap
  /\ now = 1
  /\ rnd = 0
  /\ pendingImport = << >>
  /\ InitSaveState
  /\ last = Op("init", NoId, NoSeat, NoSeat, TRUE, 0)

NextNumbering == ClickSeat

SpecNumbering == InitNumbering /\ [][NextNumbering]_vars

\* the configurations with entrance rows: both decks have up to NumRows rows
\* and a row is a table row or an entrance row, not both
InitEntrance ==
  /\ mainDeckRows \in MinRows..NumRows
  /\ upperDeckRows \in MinRows..NumRows
  /\ hasUpperDeck \in BOOLEAN
  /\ lastRowSeats \in {StandardRowSeats, DefaultLastRowSeats}
  /\ entranceRows \in SUBSET (1..mainDeckRows)
  /\ tableRows \in SUBSET ((1..mainDeckRows) \ entranceRows)
  /\ upperDeckEntranceRows \in SUBSET (1..upperDeckRows)
  /\ emptySpaces = {}
  /\ tourGuideSeats = << >>
  /\ driverSeats = << >>
  /\ people = << >>
  /\ seatAssignments = EmptyMap
  /\ now = 1
  /\ rnd = 0
  /\ pendingImport = << >>
  /\ InitSaveState
  /\ last = Op("init", NoId, NoSeat, NoSeat, TRUE, 0)

SpecEntrance == InitEntrance /\ [][NextNumbering]_vars

(***************************************************************************)
(* Sorting by birth date.  birthDate is the getTime() of the date, NoBirth *)
(* when the record has none.                                               *)
(***************************************************************************)
\* (a, b) => { if (!a.birthDate || !b.birthDate) return 0; return a - b; }
compareBirth(a, b) ==
  IF a.birthDate = NoBirth \/ b.birthDate = NoBirth THEN 0 ELSE a.birthDate - b.birthDate

\* the comparator orders the elements of list consistently (ECMAScript: the
\* condition under which the order Array.prototype.sort gives is specified)
ConsistentComparator(list) ==
  \A i \in 1..Len(list), j \in 1..Len(list), k \in 1..Len(list) :
    LET ab == compareBirth(list[i], list[j])
        bc == compareBirth(list[j], list[k])
        ac == compareBirth(list[i], list[k])
    IN  /\ (ab = 0 /\ bc = 0) => ac = 0
        /\ (ab < 0 /\ bc < 0) => ac < 0
        /\ (ab > 0 /\ bc > 0) => ac > 0

RECURSIVE insertSorted(_, _)
\* x is put behind every element that does not compare greater than it
insertSorted(sorted, x) ==
  IF sorted # << >> /\ compareBirth(sorted[Len(sorted)], x) > 0
  THEN Append(insertSorted(SubSeq(sorted, 1, Len(sorted) - 1), x), sorted[Len(sorted)])
  ELSE Append(sorted, x)

RECURSIVE stableSort(_)
stableSort(list) ==
  IF list = << >> THEN << >>
  ELSE insertSorted(stableSort(SubSeq(list, 1, Len(list) - 1)), list[Len(list)])

\* the orders of the elements of list
Orders(list) == {[i \in 1..Len(list) |-> list[f[i]]] : f \in Permutations(1..Len(list))}

\* [...list].sort(compareBirth): the stable ascending order when the comparator
\* is consistent on the list, an order the engine chooses when it is not
sortByBirth(list) ==
  IF ConsistentComparator(list) THEN {stableSort(list)} ELSE Orders(list)

(***************************************************************************)
(* Import of a file of people (PeopleManager.handleFileUpload).            *)
(***************************************************************************)
\* the name and birth cells of the records of a file: records without a usable
\* name, with and without a birth cell, and records with a name to be trimmed
ImportRows ==
  [name : {<<" ">>}, birth : {NoBirth, 2000}]
    \cup [name : {<<"A", " ">>}, birth : {NoBirth} \cup BirthDates]

ImportFiles == UNION {[1..n -> ImportRows] : n \in 1..MaxImport}

RECURSIVE importedPeople(_, _, _)
\* results.data.forEach: a record with a usable name becomes a person whose id
\* is Date.now().toString() + Math.random(); draws is the number of earlier
\* readings of Math.random()
importedPeople(rows, t, draws) ==
  IF rows = << >> THEN << >>
  ELSE IF trim(Head(rows).name) # << >>
       THEN <<Person(<<t, draws + 1>>, trim(Head(rows).name), Head(rows).birth)>>
            \o importedPeople(Tail(rows), t, draws + 1)
       ELSE importedPeople(Tail(rows), t, draws)

\* handleFileUpload: Papa.parse(file, {complete}) starts, its callback holding
\* the people of this render
FileUpload ==
  /\ Len(pendingImport) < MaxPending
  /\ pendingImport' = Append(pendingImport, people)
  /\ last' = Op("fileUpload", NoId, NoSeat, NoSeat, TRUE, 0)
  /\ UNCHANGED <<saveState, seatNumbers>>
  /\ UNCHANGED <<geometry, emptySpaces, tourGuideSeats, driverSeats, people, seatAssignments,
                 now, rnd>>

\* the complete callback: onPeopleChange([...people, ...importedPeople])
ImportComplete ==
  /\ pendingImport # << >>
  /\ \E rows \in ImportFiles :
       LET imported == importedPeople(rows, now, rnd)
       IN  /\ Len(Head(pendingImport)) + Len(imported) <= MaxRoster
           /\ rnd + Len(imported) <= MaxDraws
           /\ \E sorted \in sortByBirth(imported) :
                people' = Head(pendingImport) \o sorted
           /\ rnd' = rnd + Len(imported)
           /\ last' = [Op("import", NoId, NoSeat, NoSeat, TRUE, Len(imported))
                         EXCEPT !.file = rows]
  /\ pendingImport' = Tail(pendingImport)
  /\ UNCHANGED <<saveState, seatNumbers>>
  /\ UNCHANGED <<geometry, emptySpaces, tourGuideSeats, driverSeats, seatAssignments, now>>

\* a session of drags: people are added, seats are marked empty or tour guide
\* seats, and drags end over seats, over the people panel and over nothing
NextDrop ==
  \/ AddPerson
  \/ Tick
  \/ ClickSeat
  \/ CtrlClickSeat
  \/ DropFromList
  \/ DropSeatToSeat
  \/ DropToPeople
  \/ DropOutside
  \/ DropWithoutPerson

SpecDrop == Init /\ [][NextDrop]_vars

\* a session of the people manager: names typed in and files imported, the
\* parse of a file completing later than the changes made meanwhile
NextRoster ==
  \/ AddPerson
  \/ Tick
  \/ FileUpload
  \/ ImportComplete

SpecRoster == Init /\ [][NextRoster]_vars

\* the people manager with removals: people are added and removed while the
\* parse of a file is pending
NextPending ==
  \/ AddPerson
  \/ RemovePerson
  \/ Tick
  \/ FileUpload
  \/ ImportComplete

SpecPending == Init /\ [][NextPending]_vars

(***************************************************************************)
(* Automatic assignment.                                                   *)
(***************************************************************************)
\* getAvailableSeats with the tour guide seats left in
availableWithGuides ==
  SelectSeq(MainDeckSeats(mainDeckRows, lastRowSeats, 1)
              \o (IF hasUpperDeck THEN UpperDeckSeats(upperDeckRows, 1) ELSE << >>),
            LAMBDA seatId : seatId \notin emptySpaces)

\* getAvailableSeats: the seat ids of both decks, row by row, that are neither
\* an empty space nor a tour guide seat
getAvailableSeats ==
  SelectSeq(MainDeckSeats(mainDeckRows, lastRowSeats, 1)
              \o (IF hasUpperDeck THEN UpperDeckSeats(upperDeckRows, 1) ELSE << >>),
            LAMBDA seatId : seatId \notin emptySpaces /\ ~includes(tourGuideSeats, seatId))

Min(a, b) == IF a <= b THEN a ELSE b

RECURSIVE assignLoop(_, _, _, _, _)
\* for (let i = 0; i < assignCount; i++) newAssignments.set(freeSeats[i], sortedPeople[i].id)
assignLoop(newAssignments, freeSeats, sortedPeople, i, assignCount) ==
  IF i > assignCount THEN newAssignments
  ELSE assignLoop(MapSet(newAssignments, freeSeats[i], sortedPeople[i].id),
                  freeSeats, sortedPeople, i + 1, assignCount)

\* autoAssignPeople (the Auto Assign button)
autoAssignPeople ==
  LET availableSeats == getAvailableSeats
      freeSeats == SelectSeq(availableSeats, LAMBDA seat : ~MapHas(seatAssignments, seat))
      assignedIds == MapValues(seatAssignments)
      unassignedPeople == SelectSeq(people, LAMBDA p : p.id \notin assignedIds)
  IN  /\ \E sortedPeople \in sortByBirth(unassignedPeople) :
           LET assignCount == Min(Len(sortedPeople), Len(freeSeats))
           IN  /\ seatAssignments' =
                    assignLoop(seatAssignments, freeSeats, sortedPeople, 1, assignCount)
               /\ last' = Op("autoAssign", NoId, NoSeat, NoSeat, TRUE, assignCount)
      /\ UNCHANGED <<saveState, seatNumbers>>
      /\ UNCHANGED <<geometry, emptySpaces, tourGuideSeats, driverSeats, people, now, rnd,
                     pendingImport>>

\* the configurations of the numbering with two people on the list
InitCandidates ==
  /\ mainDeckRows \in MinRows..NumRows
  /\ upperDeckRows \in MinRows..NumUpperRows
  /\ hasUpperDeck \in BOOLEAN
  /\ lastRowSeats \in {StandardRowSeats, DefaultLastRowSeats}
  /\ entranceRows \in SUBSET (1..mainDeckRows)
  /\ tableRows \in SUBSET (1..mainDeckRows)
  /\ upperDeckEntranceRows \in SUBSET (1..upperDeckRows)
  /\ emptySpaces = {}
  /\ tourGuideSeats = << >>
  /\ driverSeats = << >>
  /\ people = <<Person(<<1, 0>>, <<"A">>, 2000), Person(<<2, 0>>, <<"A">>, 1990)>>
  /\ seatAssignments = EmptyMap
  /\ now = 2
  /\ rnd = 0
  /\ pendingImport = << >>
  /\ InitSaveState
  /\ last = Op("init", NoId, NoSeat, NoSeat, TRUE, 0)

\* seats are marked empty or tour guide seats, and Auto Assign is pressed
NextCandidates ==
  \/ ClickSeat
  \/ CtrlClickSeat
  \/ autoAssignPeople

SpecCandidates == InitCandidates /\ [][NextCandidates]_vars

(***************************************************************************)
(* The deck controls.                                                      *)
(***************************************************************************)
Max(a, b) == IF a >= b THEN a ELSE b

\* the new value of a row count: Math.max(1, Math.min(most, value))
clampRows(value, most) == Max(MinRows, Min(most, value))

\* the row buttons of the main deck: updateMainDeckRows(-1) (disabled at 1 row)
\* and updateMainDeckRows(1) (disabled at 25 rows)
updateMainDeckRows ==
  \E increment \in {-1, 1} :
    /\ increment = -1 => mainDeckRows > MinRows
    /\ increment = 1 => mainDeckRows < MaxMainDeckRows
    /\ clampRows(mainDeckRows + increment, MaxMainDeckRows) <= NumRows
    /\ mainDeckRows' = clampRows(mainDeckRows + increment, MaxMainDeckRows)
    /\ last' = Op("updateMainDeckRows", NoId, NoSeat, NoSeat, TRUE, increment)
    /\ UNCHANGED <<saveState, seatNumbers>>
    /\ UNCHANGED <<upperDeckRows, hasUpperDeck, lastRowSeats, entranceRows, tableRows,
                   upperDeckEntranceRows, emptySpaces, tourGuideSeats, driverSeats, people,
                   seatAssignments, now, rnd, pendingImport>>

\* the number input of the main deck rows: parseInt(e.target.value) || 1,
\* clamped; value 0 stands for a text parseInt gives NaN or 0 for
SetMainDeckRows ==
  \E value \in 0..NumRows :
    /\ mainDeckRows' = clampRows(IF value = 0 THEN 1 ELSE value, MaxMainDeckRows)
    /\ last' = Op("setMainDeckRows", NoId, NoSeat, NoSeat, TRUE, value)
    /\ UNCHANGED <<saveState, seatNumbers>>
    /\ UNCHANGED <<upperDeckRows, hasUpperDeck, lastRowSeats, entranceRows, tableRows,
                   upperDeckEntranceRows, emptySpaces, tourGuideSeats, driverSeats, people,
                   seatAssignments, now, rnd, pendingImport>>

\* the row buttons of the upper deck: updateUpperDeckRows(-1) and (1)
updateUpperDeckRows ==
  \E increment \in {-1, 1} :
    /\ hasUpperDeck
    /\ increment = -1 => upperDeckRows > MinRows
    /\ increment = 1 => upperDeckRows < MaxUpperDeckRows
    /\ clampRows(upperDeckRows + increment, MaxUpperDeckRows) <= NumRows
    /\ upperDeckRows' = clampRows(upperDeckRows + increment, MaxUpperDeckRows)
    /\ last' = Op("updateUpperDeckRows", NoId, NoSeat, NoSeat, TRUE, increment)
    /\ UNCHANGED <<saveState, seatNumbers>>
    /\ UNCHANGED <<mainDeckRows, hasUpperDeck, lastRowSeats, entranceRows, tableRows,
                   upperDeckEntranceRows, emptySpaces, tourGuideSeats, driverSeats, people,
                   seatAssignments, now, rnd, pendingImport>>

\* toggleUpperDeck
toggleUpperDeck ==
  /\ hasUpperDeck' = ~hasUpperDeck
  /\ last' = Op("toggleUpperDeck", NoId, NoSeat, NoSeat, TRUE, 0)
  /\ UNCHANGED <<saveState, seatNumbers>>
  /\ UNCHANGED <<mainDeckRows, upperDeckRows, lastRowSeats, entranceRows, tableRows,
                 upperDeckEntranceRows, emptySpaces, tourGuideSeats, driverSeats, people,
                 seatAssignments, now, rnd, pendingImport>>

\* toggleLastRowSeats: 4 becomes 5 and 5 becomes 4
toggleLastRowSeats ==
  /\ lastRowSeats' = IF lastRowSeats = StandardRowSeats THEN DefaultLastRowSeats
                     ELSE StandardRowSeats
  /\ last' = Op("toggleLastRowSeats", NoId, NoSeat, NoSeat, TRUE, 0)
  /\ UNCHANGED <<saveState, seatNumbers>>
  /\ UNCHANGED <<mainDeckRows, upperDeckRows, hasUpperDeck, entranceRows, tableRows,
                 upperDeckEntranceRows, emptySpaces, tourGuideSeats, driverSeats, people,
                 seatAssignments, now, rnd, pendingImport>>

\* getTotalSeats: regularSeats + lastRowSeats + upperDeckSeats - emptySpaces.size
getTotalSeats ==
  (mainDeckRows - 1) * StandardRowSeats + lastRowSeats
    + (IF hasUpperDeck THEN upperDeckRows * StandardRowSeats ELSE 0)
    - Cardinality(emptySpaces)

\* the default configuration after the row counts were brought down, with one
\* person on the list
InitGeometry ==
  /\ mainDeckRows = NumRows
  /\ upperDeckRows = MinRows
  /\ hasUpperDeck = FALSE
  /\ lastRowSeats = DefaultLastRowSeats
  /\ entranceRows = {}
  /\ tableRows = {}
  /\ upperDeckEntranceRows = {}
  /\ emptySpaces = {}
  /\ tourGuideSeats = << >>
  /\ driverSeats = << >>
  /\ people = <<Person(<<1, 0>>, <<"A">>, NoBirth)>>
  /\ seatAssignments = EmptyMap
  /\ now = 2
  /\ rnd = 0
  /\ pendingImport = << >>
  /\ InitSaveState
  /\ last = Op("init", NoId, NoSeat, NoSeat, TRUE, 0)

\* a session of the deck controls, seat clicks and drops
NextGeometry ==
  \/ updateMainDeckRows
  \/ SetMainDeckRows
  \/ updateUpperDeckRows
  \/ toggleUpperDeck
  \/ toggleLastRowSeats
  \/ ClickSeat
  \/ DropFromList
  \/ DropSeatToPeople

SpecGeometry == InitGeometry /\ [][NextGeometry]_vars

(***************************************************************************)
(* A session of imports and assignments on a deck whose empty spaces and   *)
(* tour guide seats have been set.                                         *)
(***************************************************************************)
InitAuto ==
  /\ mainDeckRows = MinRows
  /\ upperDeckRows = 3
  /\ hasUpperDeck = FALSE
  /\ lastRowSeats = DefaultLastRowSeats
  /\ entranceRows = {}
  /\ tableRows = {}
  /\ upperDeckEntranceRows = {}
  /\ emptySpaces \in {e \in SUBSET Range(MainDeckSeats(MinRows, DefaultLastRowSeats, 1)) :
                        Cardinality(e) <= MaxEmpty}
  /\ tourGuideSeats \in {<< >>} \cup Presets
  /\ driverSeats = << >>
  /\ people = << >>
  /\ seatAssignments = EmptyMap
  /\ now = 1
  /\ rnd = 0
  /\ pendingImport = << >>
  /\ InitSaveState
  /\ last = Op("init", NoId, NoSeat, NoSeat, TRUE, 0)

NextAuto ==
  \/ FileUpload
  \/ ImportComplete
  \/ DropSeatToPeople
  \/ autoAssignPeople

SpecAuto == InitAuto /\ [][NextAuto]_vars

(***************************************************************************)
(* Sessions that interleave the seat marks with the roster, the drops and  *)
(* the automatic assignment.                                               *)
(***************************************************************************)
\* empty-space toggles with roster additions and removals and the ledger
NextEmpty ==
  \/ AddPerson
  \/ RemovePerson
  \/ Tick
  \/ ClickSeat
  \/ DropFromList
  \/ DropSeatToSeat
  \/ DropSeatToPeople
  \/ autoAssignPeople

SpecEmpty == Init /\ [][NextEmpty]_vars

\* tour guide seats set by Ctrl+click, preset and Clear All, with the ledger
NextGuide ==
  \/ AddPerson
  \/ Tick
  \/ CtrlClickSeat
  \/ SetTourGuideSeats
  \/ DropFromList
  \/ DropSeatToSeat
  \/ DropSeatToPeople
  \/ autoAssignPeople

SpecGuide == Init /\ [][NextGuide]_vars

(***************************************************************************)
(* Serialization of the configuration (saveConfiguration,                  *)
(* downloadConfiguration).  An array is a sequence; an object is the        *)
(* sequence of its <<key, value>> properties in creation order.            *)
(***************************************************************************)
\* Array.from(set): the elements of the Set, each once
ArrayFrom(set) ==
  CHOOSE a \in [1..Cardinality(set) -> set] : Range(a) = set

\* ToPropertyKey of a string: the string
propertyKey(key) == key

\* obj[key] = value: the property is replaced when there is one, created if not
objectSet(obj, key, value) ==
  IF \E i \in 1..Len(obj) : obj[i][1] = propertyKey(key)
  THEN [i \in 1..Len(obj) |->
          IF obj[i][1] = propertyKey(key) THEN <<propertyKey(key), value>> ELSE obj[i]]
  ELSE Append(obj, <<propertyKey(key), value>>)

RECURSIVE fromEntriesLoop(_, _, _)
fromEntriesLoop(map, keys, obj) ==
  IF keys = << >> THEN obj
  ELSE fromEntriesLoop(map, Tail(keys), objectSet(obj, Head(keys), map[Head(keys)]))

\* Object.fromEntries(map)
fromEntries(map) == fromEntriesLoop(map, ArrayFrom(DOMAIN map), << >>)

\* a configData whose seatAssignments is made from the seat numbers
configDataWrongMap ==
  [busName |-> busName, licensePlates |-> licensePlates,
   mainDeckRows |-> mainDeckRows, upperDeckRows |-> upperDeckRows,
   hasUpperDeck |-> hasUpperDeck, lastRowSeats |-> lastRowSeats,
   tourGuideSeats |-> tourGuideSeats,
   emptySpaces |-> ArrayFrom(emptySpaces),
   seatNumbers |-> fromEntries(seatNumbers),
   people |-> people,
   seatAssignments |-> fromEntries(seatNumbers)]

\* configData of saveConfiguration and downloadConfiguration
configData ==
  [busName |-> busName, licensePlates |-> licensePlates,
   mainDeckRows |-> mainDeckRows, upperDeckRows |-> upperDeckRows,
   hasUpperDeck |-> hasUpperDeck, lastRowSeats |-> lastRowSeats,
   tourGuideSeats |-> tourGuideSeats,
   emptySpaces |-> ArrayFrom(emptySpaces),
   seatNumbers |-> fromEntries(seatNumbers),
   people |-> people,
   seatAssignments |-> fromEntries(seatAssignments)]

\* new Set(array)
setFromArray(array) == Range(array)

\* new Map(Object.entries(obj))
mapFromObject(obj) ==
  [key \in {obj[i][1] : i \in 1..Len(obj)} |->
     LET i == CHOOSE j \in 1..Len(obj) : obj[j][1] = key IN obj[i][2]]

(***************************************************************************)
(* Saving to the store (saveConfiguration and the bus_configurations       *)
(* table).                                                                 *)
(***************************************************************************)
TypedTitles == {<<" ">>, <<"B">>, <<"C", " ">>}

\* the Bus Name input
SetBusName ==
  \E text \in TypedTitles :
    /\ busName' = text
    /\ last' = Op("setBusName", NoId, NoSeat, NoSeat, TRUE, 0)
    /\ UNCHANGED <<licensePlates, savedConfigId, saves, store, issued, applied, shares,
                   seatNumbers>>
    /\ UNCHANGED <<geometry, emptySpaces, tourGuideSeats, driverSeats, people, seatAssignments,
                   now, rnd, pendingImport>>

\* the License Plates input
SetLicensePlates ==
  \E text \in TypedTitles :
    /\ licensePlates' = text
    /\ last' = Op("setLicensePlates", NoId, NoSeat, NoSeat, TRUE, 0)
    /\ UNCHANGED <<busName, savedConfigId, saves, store, issued, applied, shares, seatNumbers>>
    /\ UNCHANGED <<geometry, emptySpaces, tourGuideSeats, driverSeats, people, seatAssignments,
                   now, rnd, pendingImport>>

SaveCall(n, target, data, phase, id) ==
  [n |-> n, target |-> target, data |-> data, phase |-> phase, id |-> id]

\* saveConfiguration up to its await: the two checks, then the update of the
\* record savedConfigId names, or the insert of a new one when it is null
saveConfiguration ==
  /\ issued < MaxSaves
  /\ IF trim(busName) = << >> \/ trim(licensePlates) = << >>
     THEN /\ UNCHANGED <<saves, issued>>
          /\ last' = Op("save", NoId, NoSeat, NoSeat, FALSE, 0)
     ELSE /\ saves' = saves \cup {SaveCall(issued + 1, savedConfigId, configData, "sent", NoRecord)}
          /\ issued' = issued + 1
          /\ last' = Op("save", NoId, NoSeat, NoSeat, TRUE, issued + 1)
  /\ UNCHANGED <<busName, licensePlates, savedConfigId, store, applied, shares, seatNumbers>>
  /\ UNCHANGED <<geometry, emptySpaces, tourGuideSeats, driverSeats, people, seatAssignments,
                 now, rnd, pendingImport>>

\* the store runs a request: an insert makes a row with a new id
\* (gen_random_uuid()), an update writes the row .eq('id', savedConfigId)
StoreHandles ==
  \E call \in saves :
    /\ call.phase = "sent"
    /\ LET id == IF call.target = NoRecord THEN Cardinality(DOMAIN store) + 1
                 ELSE call.target
       IN  /\ store' = MapSet(store, id, call.data)
           /\ saves' = (saves \ {call})
                         \cup {SaveCall(call.n, call.target, call.data, "ok", id)}
    /\ UNCHANGED <<busName, licensePlates, savedConfigId, issued, applied, shares,
                   seatNumbers, last>>
    /\ UNCHANGED <<geometry, emptySpaces, tourGuideSeats, driverSeats, people, seatAssignments,
                   now, rnd, pendingImport>>

\* the store rejects a request, or the request never reaches it
StoreFails ==
  \E call \in saves :
    /\ call.phase = "sent"
    /\ saves' = (saves \ {call})
                  \cup {SaveCall(call.n, call.target, call.data, "error", NoRecord)}
    /\ UNCHANGED <<busName, licensePlates, savedConfigId, store, issued, applied, shares,
                   seatNumbers,
                   last>>
    /\ UNCHANGED <<geometry, emptySpaces, tourGuideSeats, driverSeats, people, seatAssignments,
                   now, rnd, pendingImport>>

\* the answer of the store is lost on the way back
ResponseLost ==
  \E call \in saves :
    /\ call.phase = "ok"
    /\ saves' = (saves \ {call})
                  \cup {SaveCall(call.n, call.target, call.data, "error", NoRecord)}
    /\ UNCHANGED <<busName, licensePlates, savedConfigId, store, issued, applied, shares,
                   seatNumbers,
                   last>>
    /\ UNCHANGED <<geometry, emptySpaces, tourGuideSeats, driverSeats, people, seatAssignments,
                   now, rnd, pendingImport>>

\* saveConfiguration after its await, no error: setSavedConfigId(data.id)
SaveResponse ==
  \E call \in saves :
    /\ call.phase = "ok"
    /\ savedConfigId' = call.id
    /\ applied' = Append(applied, call.n)
    /\ saves' = saves \ {call}
    /\ last' = Op("saved", NoId, NoSeat, NoSeat, TRUE, call.n)
    /\ UNCHANGED <<busName, licensePlates, store, issued, shares, seatNumbers>>
    /\ UNCHANGED <<geometry, emptySpaces, tourGuideSeats, driverSeats, people, seatAssignments,
                   now, rnd, pendingImport>>

\* an error path that forgets the stored record
SaveErrorForgetsRecord ==
  \E call \in saves :
    /\ call.phase = "error"
    /\ saves' = saves \ {call}
    /\ savedConfigId' = NoRecord
    /\ last' = Op("saveFailed", NoId, NoSeat, NoSeat, FALSE, call.n)
    /\ UNCHANGED <<busName, licensePlates, store, issued, applied, shares, seatNumbers>>
    /\ UNCHANGED <<geometry, emptySpaces, tourGuideSeats, driverSeats, people, seatAssignments,
                   now, rnd, pendingImport>>

\* saveConfiguration after its await, error: throw, catch, toast.error
SaveError ==
  \E call \in saves :
    /\ call.phase = "error"
    /\ saves' = saves \ {call}
    /\ last' = Op("saveFailed", NoId, NoSeat, NoSeat, FALSE, call.n)
    /\ UNCHANGED <<busName, licensePlates, savedConfigId, store, issued, applied, shares,
                   seatNumbers>>
    /\ UNCHANGED <<geometry, emptySpaces, tourGuideSeats, driverSeats, people, seatAssignments,
                   now, rnd, pendingImport>>

\* saving with answers that come back in any order, fail or get lost, while
\* the name and the plates are edited
NextSave ==
  \/ SetBusName
  \/ SetLicensePlates
  \/ saveConfiguration
  \/ StoreHandles
  \/ StoreFails
  \/ ResponseLost
  \/ SaveResponse
  \/ SaveError

SpecSave == Init /\ [][NextSave]_vars

(***************************************************************************)
(* Sharing (shareConfiguration).  Inside the function savedConfigId is the *)
(* value of the render in which Share was pressed: after awaiting          *)
(* saveConfiguration the function reads that same value again.             *)
(***************************************************************************)
ShareCall(n, captured) == [n |-> n, captured |-> captured]

\* select('share_token').eq('id', id).single(), then the link is built from
\* the token and copied; the token of a record is modelled by the record's id
shareLink(id) ==
  IF id \in DOMAIN store
  THEN Op("shareLink", NoId, NoSeat, NoSeat, TRUE, id)
  ELSE Op("shareFailed", NoId, NoSeat, NoSeat, FALSE, id)

\* shareConfiguration up to its first await: with a stored record the select
\* of the token, without one the call of saveConfiguration
shareConfiguration ==
  /\ IF savedConfigId # NoRecord
     THEN /\ last' = shareLink(savedConfigId)
          /\ UNCHANGED <<saves, issued, shares>>
     ELSE IF trim(busName) = << >> \/ trim(licensePlates) = << >>
          THEN /\ last' = Op("shareStopped", NoId, NoSeat, NoSeat, FALSE, 0)
               /\ UNCHANGED <<saves, issued, shares>>
          ELSE /\ issued < MaxSaves
               /\ saves' = saves \cup
                    {SaveCall(issued + 1, savedConfigId, configData, "sent", NoRecord)}
               /\ issued' = issued + 1
               /\ shares' = shares \cup {ShareCall(issued + 1, savedConfigId)}
               /\ last' = Op("save", NoId, NoSeat, NoSeat, TRUE, issued + 1)
  /\ UNCHANGED <<busName, licensePlates, savedConfigId, store, applied, seatNumbers>>
  /\ UNCHANGED <<geometry, emptySpaces, tourGuideSeats, driverSeats, people, seatAssignments,
                 now, rnd, pendingImport>>

\* shareConfiguration after await saveConfiguration(): if (!savedConfigId)
\* return, with the savedConfigId of the call; otherwise the select
ShareResumes ==
  \E share \in shares :
    /\ \A call \in saves : call.n # share.n
    /\ shares' = shares \ {share}
    /\ last' = IF share.captured = NoRecord
               THEN Op("shareStopped", NoId, NoSeat, NoSeat, FALSE, share.n)
               ELSE shareLink(share.captured)
    /\ UNCHANGED <<busName, licensePlates, savedConfigId, saves, store, issued, applied,
                   seatNumbers>>
    /\ UNCHANGED <<geometry, emptySpaces, tourGuideSeats, driverSeats, people, seatAssignments,
                   now, rnd, pendingImport>>

\* sharing and saving while the name and the plates are edited
NextShare ==
  \/ SetBusName
  \/ SetLicensePlates
  \/ saveConfiguration
  \/ shareConfiguration
  \/ StoreHandles
  \/ StoreFails
  \/ SaveResponse
  \/ SaveError
  \/ ShareResumes

SpecShare == Init /\ [][NextShare]_vars

(***************************************************************************)
(* Seat number overrides.                                                  *)
(***************************************************************************)
TypedNumbers == {<<" ">>, <<"7">>, <<" ", "7">>, <<"V">>}

\* updateSeatNumber(seatId, number)
updateSeatNumber(numbers, seatId, number) ==
  IF trim(number) # << >> THEN MapSet(numbers, seatId, trim(number))
  ELSE MapDelete(numbers, seatId)

\* Seat.handleSave with editValue in the input of seat seatId:
\* onUpdateSeatNumber(seatId, editValue)
handleSave(seatId, editValue) ==
  /\ seatNumbers' = updateSeatNumber(seatNumbers, seatId, editValue)
  /\ last' = Op("updateSeatNumber", NoId, NoSeat, seatId, TRUE, 0)
  /\ UNCHANGED saveState
  /\ UNCHANGED <<geometry, emptySpaces, tourGuideSeats, driverSeats, people, seatAssignments,
                 now, rnd, pendingImport>>

\* Seat: double click on a seat that shows no person, type, Enter (handleSave)
EditSeatNumber ==
  \E seatId \in RenderedSeats \ emptySpaces, number \in TypedNumbers :
    /\ ~hasPerson(seatId)
    /\ MapHas(seatNumbers, seatId) \/ Cardinality(DOMAIN seatNumbers) < MaxOverrides
    /\ handleSave(seatId, number)

\* the characters "0" to "9"
DigitChars == <<"0", "1", "2", "3", "4", "5", "6", "7", "8", "9">>

RECURSIVE decimal(_)
\* String(counter): the characters of the decimal numeral of a number
decimal(n) ==
  IF n < 10 THEN <<DigitChars[n + 1]>> ELSE decimal(n \div 10) \o <<DigitChars[(n % 10) + 1]>>

\* the characters of a displayLabel: none for "", those of its numeral otherwise
labelText(label) ==
  IF label = "" THEN << >>
  ELSE decimal(CHOOSE k \in 1..99 : ToString(k) = label)

\* Seat.isNumeric: !!val && /^\d+$/.test(val)
isNumeric(val) == val # << >> /\ \A i \in 1..Len(val) : val[i] \in Range(DigitChars)

\* Seat.displayResolved with every override taken, numeric or not
displayOverrideFirst(numbers, label, seatId) ==
  IF MapHas(numbers, seatId) THEN numbers[seatId] ELSE labelText(label)

\* Seat.displayResolved: isNumeric(customNumber) ? customNumber : displayLabel,
\* customNumber = config.seatNumbers.get(seatId)
displayResolved(numbers, label, seatId) ==
  IF MapHas(numbers, seatId) /\ isNumeric(numbers[seatId])
  THEN numbers[seatId]
  ELSE labelText(label)

\* what the button of a seat that is not an empty space shows:
\* assignedPerson ? assignedPerson.name : displayResolved
seatText(seatId) ==
  IF hasPerson(seatId)
  THEN (CHOOSE p \in Range(people) : p.id = seatAssignments[seatId]).name
  ELSE displayResolved(seatNumbers, displayLabel(Config, seatId), seatId)

\* Seat: double click on a seat that shows no person (handleDoubleClick puts
\* displayResolved in the input), then Enter or blur with the text untouched
KeepSeatNumber ==
  \E seatId \in RenderedSeats \ emptySpaces :
    /\ ~hasPerson(seatId)
    /\ MapHas(seatNumbers, seatId) \/ Cardinality(DOMAIN seatNumbers) < MaxOverrides
    /\ handleSave(seatId, displayResolved(seatNumbers, displayLabel(Config, seatId), seatId))

\* a session of seat labels: seats are marked empty and restored, labels are
\* typed in or committed untouched, and people are seated
NextLabels ==
  \/ ClickSeat
  \/ EditSeatNumber
  \/ KeepSeatNumber
  \/ AddPerson
  \/ DropFromList

SpecLabels == Init /\ [][NextLabels]_vars

(***************************************************************************)
(* Saving a configuration that has empty spaces, seat number overrides and *)
(* assignments on both decks.                                              *)
(***************************************************************************)
InitSerialize ==
  /\ mainDeckRows = MinRows
  /\ upperDeckRows = MinRows
  /\ hasUpperDeck = TRUE
  /\ lastRowSeats = DefaultLastRowSeats
  /\ entranceRows = {}
  /\ tableRows = {}
  /\ upperDeckEntranceRows = {}
  /\ emptySpaces \in {e \in SUBSET {"1E", "U1A"} : Cardinality(e) <= MaxEmpty}
  /\ tourGuideSeats = << >>
  /\ driverSeats = << >>
  /\ people = <<Person(<<1, 0>>, <<"A">>, NoBirth), Person(<<2, 0>>, <<"A">>, NoBirth)>>
  /\ seatAssignments \in {EmptyMap, [seatId \in {"1B", "U1B"} |->
                                      IF seatId = "1B" THEN <<1, 0>> ELSE <<2, 0>>]}
  /\ now = 2
  /\ rnd = 0
  /\ pendingImport = << >>
  /\ seatNumbers = EmptyMap
  /\ busName = <<"B">>
  /\ licensePlates = <<"C", " ">>
  /\ savedConfigId = NoRecord
  /\ saves = {}
  /\ store = EmptyMap
  /\ issued = 0
  /\ applied = << >>
  /\ shares = {}
  /\ last = Op("init", NoId, NoSeat, NoSeat, TRUE, 0)

NextSerialize ==
  \/ EditSeatNumber
  \/ saveConfiguration
  \/ StoreHandles
  \/ SaveResponse

SpecSerialize == InitSerialize /\ [][NextSerialize]_vars

(***************************************************************************)
(* Properties of the ledger.                                               *)
(***************************************************************************)
\* the entries of seats other than a and b are the same in m1 and m2
SameElsewhere(m1, m2, a, b) ==
  /\ DOMAIN m1 \ {a, b} = DOMAIN m2 \ {a, b}
  /\ \A s \in DOMAIN m1 \ {a, b} : m1[s] = m2[s]

\* a seat marked empty, tour guide or driver
Reserved(seatId) ==
  \/ seatId \in emptySpaces
  \/ includes(tourGuideSeats, seatId)
  \/ includes(driverSeats, seatId)

\* C1: after any sequence of drops (list -> seat, seat -> seat, seat -> people
\* panel) from the empty ledger, no two distinct seats hold the same person id.
C1_Uniqueness ==
  \A s1 \in DOMAIN seatAssignments, s2 \in DOMAIN seatAssignments :
    s1 # s2 => seatAssignments[s1] # seatAssignments[s2]

C1_Witness ==
  /\ last.op \in {"assign", "moveOrSwap", "seatDrop"}
  /\ last.ok
  /\ Cardinality(DOMAIN seatAssignments) >= 2

\* C2: a seat-to-seat drop from A (holding P) onto another seat B holding a
\* different person Q, B a valid target, leaves Q on A and P on B and changes
\* the entry of no other seat.
C2_Swap ==
  [][\A a \in RenderedSeats, b \in RenderedSeats :
       ( /\ a # b
         /\ MapHas(seatAssignments, a)
         /\ MapHas(seatAssignments, b)
         /\ seatAssignments[b] # seatAssignments[a]
         /\ ~InvalidTarget(emptySpaces, tourGuideSeats, b)
         /\ handleDragEnd(PersonData(seatAssignments[a], a), b) )
       => /\ MapHas(seatAssignments', a) /\ seatAssignments'[a] = seatAssignments[b]
          /\ MapHas(seatAssignments', b) /\ seatAssignments'[b] = seatAssignments[a]
          /\ SameElsewhere(seatAssignments, seatAssignments', a, b)]_vars

C2_Witness ==
  /\ last.op = "moveOrSwap"
  /\ last.ok
  /\ last.from # last.seat
  /\ MapHas(seatAssignments, last.from)
  /\ MapHas(seatAssignments, last.seat)
  /\ seatAssignments[last.seat] = last.person
  /\ Cardinality(DOMAIN seatAssignments) >= 3

\* C3: a seat-to-seat drop whose target is an empty space, a tour guide seat or
\* a driver seat is rejected and leaves the whole ledger unchanged.
C3_ReservedTargetRejected ==
  [][\A a \in RenderedSeats, b \in RenderedSeats :
       ( /\ Reserved(b)
         /\ a \notin emptySpaces
         /\ hasPerson(a)
         /\ handleDragEnd(PersonData(seatAssignments[a], a), b) )
       => seatAssignments' = seatAssignments]_vars

\* C4: dropping a person of the list on an empty space, a tour guide seat or a
\* driver seat changes nothing, in the drag-end handler and in onSeatAssignment.
C4_AssignReservedRejected ==
  [][\A i \in 1..Len(people), b \in RenderedSeats :
       ( /\ Reserved(b)
         /\ \/ handleDragEnd(PersonData(people[i].id, NoSeat), b)
            \/ /\ last'.op = "seatDrop" /\ last'.seat = b /\ last'.person = people[i].id
               /\ SeatDrop )
       => seatAssignments' = seatAssignments]_vars

\* C5: every person id of the ledger is the id of a person of the roster, so
\* removing a seated person leaves no entry for that person.
C5_LedgerInRoster ==
  \A s \in DOMAIN seatAssignments :
    \E i \in 1..Len(people) : people[i].id = seatAssignments[s]

\* C10: unassign removes the entry of the seat when present, changes nothing
\* when absent, changes no other seat, and applied twice gives what it gives
\* applied once.
C10_Unassign ==
  /\ [](\A s \in RenderedSeats :
          LET once == Unassign(seatAssignments, s)
          IN  /\ ~MapHas(once, s)
              /\ SameElsewhere(seatAssignments, once, s, s)
              /\ (~MapHas(seatAssignments, s) => once = seatAssignments)
              /\ Unassign(once, s) = once)
  /\ [][\A a \in RenderedSeats :
          ( /\ MapHas(seatAssignments, a)
            /\ handleDragEnd(PersonData(seatAssignments[a], a), PeopleDrop) )
          => /\ ~MapHas(seatAssignments', a)
             /\ SameElsewhere(seatAssignments, seatAssignments', a, a)]_vars

C10_Witness ==
  /\ last.op = "unassign"
  /\ ~MapHas(seatAssignments, last.seat)
  /\ seatAssignments # EmptyMap

(***************************************************************************)
(* Properties of the numbering.                                            *)
(***************************************************************************)
\* the slots of one row in column order
RowSlots(deck, row, n) ==
  [i \in 1..n |-> [sid |-> SeatIdOf(deck, row, i - 1), deck |-> deck, row |-> row,
                   letter |-> seatLetter(i - 1)]]

RECURSIVE MainSlots(_, _)
MainSlots(cfg, row) ==
  IF row > cfg.mainDeckRows THEN << >>
  ELSE RowSlots("main", row, seatsInRow(cfg.mainDeckRows, cfg.lastRowSeats, row))
       \o MainSlots(cfg, row + 1)

RECURSIVE UpperSlots(_, _)
UpperSlots(cfg, row) ==
  IF row > cfg.upperDeckRows THEN << >>
  ELSE RowSlots("upper", row, StandardRowSeats) \o UpperSlots(cfg, row + 1)

\* the fixed order: main deck rows ascending, then the upper deck rows when
\* there is an upper deck; columns A, B, C, ... within a row
Slots(cfg) ==
  MainSlots(cfg, 1) \o (IF cfg.hasUpperDeck THEN UpperSlots(cfg, 1) ELSE << >>)

\* the slots that get no number
Unnumbered(cfg, slot) ==
  \/ slot.sid \in cfg.emptySpaces
  \/ slot.deck = "main" /\ slot.row \in cfg.tableRows
  \/ /\ slot.letter \in {"C", "D"}
     /\ \/ slot.deck = "main" /\ slot.row \in cfg.entranceRows
        \/ slot.deck = "upper" /\ slot.row \in cfg.upperDeckEntranceRows

NumberedBefore(cfg, i) == {j \in 1..(i - 1) : ~Unnumbered(cfg, Slots(cfg)[j])}

\* C6: the number of a seat is 1 plus the count of numbered seats before it in
\* the fixed order; empty spaces, table rows and columns C/D of entrance rows
\* get none; the numbers are exactly 1..N without gap or duplicate.
C6_Numbering ==
  LET cfg == Config
      m == seatNumberMap(cfg)
      seq == Slots(cfg)
      numbered == {i \in 1..Len(seq) : ~Unnumbered(cfg, seq[i])}
  IN  /\ DOMAIN m = {seq[i].sid : i \in numbered}
      /\ \A i \in numbered :
           m[seq[i].sid] = ToString(1 + Cardinality(NumberedBefore(cfg, i)))
      /\ MapValues(m) = {ToString(k) : k \in 1..Cardinality(numbered)}
      /\ Cardinality(DOMAIN m) = Cardinality(numbered)

C6_Witness ==
  /\ mainDeckRows = 2 /\ entranceRows = {1} /\ tableRows = {2}
  /\ hasUpperDeck /\ upperDeckRows = 1 /\ upperDeckEntranceRows = {}
  /\ emptySpaces = {"1B"}
  /\ seatNumberMap(Config) =
       [sid \in {"1A", "U1A", "U1B", "U1C", "U1D"} |->
          CASE sid = "1A" -> "1" [] sid = "U1A" -> "2" [] sid = "U1B" -> "3"
            [] sid = "U1C" -> "4" [] sid = "U1D" -> "5"]

\* the place of a seat in the fixed order
SlotIndex(cfg, sid) == CHOOSE i \in 1..Len(Slots(cfg)) : Slots(cfg)[i].sid = sid

\* the seat was numbered k and is numbered k - 1
OneLower(pre, post) == \E k \in 2..(StandardRowSeats * (NumRows + NumUpperRows) + 1) :
                          pre = ToString(k) /\ post = ToString(k - 1)

\* C7: marking a numbered seat empty removes its number, lowers the number of
\* every later seat by one and keeps the earlier ones; toggling twice gives
\* back the same empty spaces and the same numbering.
C7_ToggleShifts ==
  /\ [](\A s \in RenderedSeats :
          LET twice == toggleEmptySpace(toggleEmptySpace(emptySpaces, s), s)
          IN  /\ twice = emptySpaces
              /\ seatNumberMap([Config EXCEPT !.emptySpaces = twice]) = seatNumberMap(Config))
  /\ [][\A s \in RenderedSeats :
          ( /\ MapHas(seatNumberMap(Config), s)
            /\ last'.op = "toggleEmpty" /\ last'.seat = s
            /\ ClickSeat )
          => LET cfg == Config
                 pre == seatNumberMap(cfg)
                 post == seatNumberMap([cfg EXCEPT !.emptySpaces = emptySpaces'])
             IN  /\ DOMAIN post = DOMAIN pre \ {s}
                 /\ \A t \in DOMAIN pre \ {s} :
                      IF SlotIndex(cfg, t) < SlotIndex(cfg, s)
                      THEN post[t] = pre[t]
                      ELSE OneLower(pre[t], post[t])]_vars

C7_Witness ==
  /\ last.op = "toggleEmpty"
  /\ last.seat \in emptySpaces
  /\ Cardinality(emptySpaces) = 2
  /\ \E t1 \in DOMAIN seatNumberMap(Config), t2 \in DOMAIN seatNumberMap(Config) :
       /\ SlotIndex(Config, t1) < SlotIndex(Config, last.seat)
       /\ SlotIndex(Config, last.seat) < SlotIndex(Config, t2)

(***************************************************************************)
(* Properties of the automatic assignment.                                 *)
(***************************************************************************)
\* the seats of both decks in enumeration order
AllSeats ==
  MainDeckSeats(mainDeckRows, lastRowSeats, 1)
    \o (IF hasUpperDeck THEN UpperDeckSeats(upperDeckRows, 1) ELSE << >>)

\* the place of a seat in the enumeration order
SeatOrder(seatId) == CHOOSE i \in 1..Len(AllSeats) : AllSeats[i] = seatId

\* the roster positions of the people no ledger entry names
UnassignedPeople == {i \in 1..Len(people) : people[i].id \notin MapValues(seatAssignments)}

\* the seats that are available and hold nobody
FreeSeats ==
  {seatId \in Range(AllSeats) : /\ seatId \notin emptySpaces
                                /\ ~includes(tourGuideSeats, seatId)
                                /\ ~MapHas(seatAssignments, seatId)}

\* C8: of two people with a birth date whom one autoAssign call seats, the one
\* born earlier gets the seat that comes earlier in the enumeration order.
C8_OldestFirst ==
  [][autoAssignPeople =>
       \A i \in UnassignedPeople, j \in UnassignedPeople :
         \A si \in DOMAIN seatAssignments' \ DOMAIN seatAssignments,
            sj \in DOMAIN seatAssignments' \ DOMAIN seatAssignments :
           ( /\ seatAssignments'[si] = people[i].id
             /\ seatAssignments'[sj] = people[j].id
             /\ people[i].birthDate # NoBirth /\ people[j].birthDate # NoBirth
             /\ people[i].birthDate < people[j].birthDate )
           => SeatOrder(si) < SeatOrder(sj)]_vars

\* C9: autoAssign keeps every entry there was, adds as many entries as the
\* smaller of the number of unassigned people and the number of free available
\* seats, each of an unassigned person on a free seat that is neither an empty
\* space nor a tour guide seat, and reports the number of entries added.
C9_AutoAssignFrame ==
  [][autoAssignPeople =>
       LET added == DOMAIN seatAssignments' \ DOMAIN seatAssignments
       IN  /\ \A s \in DOMAIN seatAssignments :
                MapHas(seatAssignments', s) /\ seatAssignments'[s] = seatAssignments[s]
           /\ Cardinality(added) = Min(Cardinality(UnassignedPeople), Cardinality(FreeSeats))
           /\ \A s \in added :
                /\ s \in FreeSeats
                /\ s \notin emptySpaces /\ ~includes(tourGuideSeats, s)
                /\ \E i \in UnassignedPeople : people[i].id = seatAssignments'[s]
           /\ \A s \in added, t \in added : seatAssignments'[s] = seatAssignments'[t] => s = t
           /\ last'.count = Cardinality(added)]_vars

\* an autoAssign that found entries, had more people than seats and added some
C9_Witness ==
  /\ last.op = "autoAssign"
  /\ last.count = 1
  /\ Cardinality(DOMAIN seatAssignments) = 2
  /\ UnassignedPeople # {}
  /\ FreeSeats = {}
  /\ emptySpaces # {}
  /\ tourGuideSeats # << >>

(***************************************************************************)
(* Properties of the seat marks.                                           *)
(***************************************************************************)
\* C11: in every state reachable by empty-space toggles, roster additions and
\* removals and ledger operations, no empty space has a ledger entry.
C11_EmptyHoldsNobody ==
  \A seatId \in emptySpaces : ~MapHas(seatAssignments, seatId)

\* C12: in every state reachable by tour guide seat changes (Ctrl+click,
\* presets, Clear All) and ledger operations, no tour guide seat holds a person.
C12_GuideSeatHoldsNobody ==
  \A i \in 1..Len(tourGuideSeats) : ~MapHas(seatAssignments, tourGuideSeats[i])

(***************************************************************************)
(* Properties of saving.                                                   *)
(***************************************************************************)
\* the sets and maps a serialized configuration gives back
Deserialized(data) ==
  [emptySpaces |-> setFromArray(data.emptySpaces),
   seatNumbers |-> mapFromObject(data.seatNumbers),
   seatAssignments |-> mapFromObject(data.seatAssignments)]

\* the sets and maps of the configuration in memory
InMemory ==
  [emptySpaces |-> emptySpaces, seatNumbers |-> seatNumbers,
   seatAssignments |-> seatAssignments]

configState == <<geometry, emptySpaces, tourGuideSeats, driverSeats, people, seatAssignments,
                 seatNumbers, busName, licensePlates>>

\* C14: the responses that set the stored-record id are applied in the order
\* their saves were issued: after the response of a later save, the response
\* of an earlier save is never applied.
C14_NoStaleResponse ==
  \A i \in 1..Len(applied), j \in 1..Len(applied) : i < j => applied[i] < applied[j]

\* C15: a save that fails leaves the configuration in memory and the recorded
\* id as they were and sends nothing; a request is sent only by a press of Save.
C15_FailedSaveChangesNothing ==
  [][/\ SaveError => /\ UNCHANGED configState
                     /\ savedConfigId' = savedConfigId
                     /\ issued' = issued
                     /\ saves' \subseteq saves
     /\ (issued' # issued \/ ~(saves' \subseteq {SaveCall(c.n, c.target, c.data, p, i) :
                                   c \in saves, p \in {"sent", "ok", "error"},
                                   i \in {NoRecord} \cup DOMAIN store'}))
          => saveConfiguration]_vars

\* a save failed after an earlier one had succeeded
C15_Witness ==
  /\ last.op = "saveFailed"
  /\ savedConfigId # NoRecord
  /\ store # EmptyMap
  /\ saves = {}

(***************************************************************************)
(* The roster.                                                             *)
(***************************************************************************)
\* C16: after any sequence of typed-in additions and imports the ids of the
\* people of the roster are pairwise distinct, also when several people are
\* added within one reading of the clock
C16_DistinctIds ==
  \A i, j \in 1..Len(people) : i # j => people[i].id # people[j].id

\* the records of a file that have a usable name
UsableRows(rows) == SelectSeq(rows, LAMBDA row : trim(row.name) # << >>)

\* list is base followed by one person for each of the rows, in some order
AppendsRows(list, base, rows) ==
  /\ Len(list) = Len(base) + Len(rows)
  /\ SubSeq(list, 1, Len(base)) = base
  /\ \E f \in Permutations(1..Len(rows)) :
       \A k \in 1..Len(rows) :
         /\ list[Len(base) + k].name = trim(rows[f[k]].name)
         /\ list[Len(base) + k].birthDate = rows[f[k]].birth

\* C17: every person of the roster has a non-empty name without leading or
\* trailing whitespace; adding a blank name leaves the roster unchanged; an
\* import appends to the people already present one person for each record
\* with a usable name, and nothing for the other records
C17_UsableNames ==
  [][/\ \A i \in 1..Len(people') :
          people'[i].name # << >> /\ trim(people'[i].name) = people'[i].name
     /\ \A text \in TypedNames :
          (trim(text) = << >> /\ people' = addPerson(people, text)) => people' = people
     /\ (AddPerson /\ ~last'.ok) => people' = people
     /\ ImportComplete => AppendsRows(people', people, UsableRows(last'.file))]_vars

(***************************************************************************)
(* The drop as one ledger operation.                                       *)
(***************************************************************************)
\* after is before with personId on seatId and on no other seat
AssignEffect(before, after, seatId, personId) ==
  /\ DOMAIN after = {s \in DOMAIN before : before[s] # personId} \cup {seatId}
  /\ \A s \in DOMAIN after : after[s] = IF s = seatId THEN personId ELSE before[s]

\* after is before with personId moved from fromSeatId to toSeatId, and the
\* other person that sat on toSeatId, if any, on fromSeatId
MoveOrSwapEffect(before, after, fromSeatId, toSeatId, personId) ==
  LET swap == toSeatId \in DOMAIN before /\ before[toSeatId] # personId
  IN  /\ DOMAIN after = ((DOMAIN before \cup {toSeatId}) \ {fromSeatId})
                           \cup (IF swap THEN {fromSeatId} ELSE {})
      /\ \A s \in DOMAIN after :
           after[s] = IF s = fromSeatId THEN before[toSeatId]
                      ELSE IF s = toSeatId THEN personId
                      ELSE before[s]

\* after is before without the entry of seatId
UnassignEffect(before, after, seatId) ==
  /\ DOMAIN after = DOMAIN before \ {seatId}
  /\ \A s \in DOMAIN after : after[s] = before[s]

\* a drag ends
DropEvent ==
  DropFromList \/ DropSeatToSeat \/ DropToPeople \/ DropOutside \/ DropWithoutPerson

\* C18: a drop changes the ledger in one step, and the step is one assign of
\* the dragged person to the target, one moveOrSwap from the source to the
\* target, one unassign of the source, or no change; after a seat-to-seat
\* drop the dragged person is not on both seats and the person that sat on
\* the target is on one of the two; a drop over nothing or of something that
\* is not a person changes nothing
C18_DropIsOneOperation ==
  [][DropEvent =>
       /\ UNCHANGED <<geometry, emptySpaces, tourGuideSeats, driverSeats, people, seatNumbers>>
       /\ \/ seatAssignments' = seatAssignments
          \/ /\ last'.op = "assign"
             /\ AssignEffect(seatAssignments, seatAssignments', last'.seat, last'.person)
          \/ /\ last'.op = "moveOrSwap"
             /\ MoveOrSwapEffect(seatAssignments, seatAssignments', last'.from, last'.seat,
                                 last'.person)
          \/ /\ last'.op = "unassign"
             /\ UnassignEffect(seatAssignments, seatAssignments', last'.from)
       /\ (last'.op = "moveOrSwap" /\ last'.from # last'.seat) =>
            /\ ~ /\ MapHas(seatAssignments', last'.from)
                 /\ seatAssignments'[last'.from] = last'.person
                 /\ MapHas(seatAssignments', last'.seat)
                 /\ seatAssignments'[last'.seat] = last'.person
            /\ MapHas(seatAssignments, last'.seat) =>
                 \E s \in {last'.from, last'.seat} \cap DOMAIN seatAssignments' :
                   seatAssignments'[s] = seatAssignments[last'.seat]
       /\ (DropOutside \/ DropWithoutPerson) => seatAssignments' = seatAssignments]_vars

\* a swap of two seated people while a seat is marked, after which a rejected
\* drop is possible too
C18_Witness ==
  /\ last.op = "moveOrSwap"
  /\ last.ok
  /\ last.from # last.seat
  /\ MapHas(seatAssignments, last.from)
  /\ MapHas(seatAssignments, last.seat)
  /\ seatAssignments[last.seat] = last.person
  /\ seatAssignments[last.from] # last.person
  /\ emptySpaces \cup Range(tourGuideSeats) # {}

(***************************************************************************)
(* Entrance rows.                                                          *)
(***************************************************************************)
\* the number a seat's label stands for
LabelNumber(map, sid) ==
  CHOOSE k \in 1..(2 * NumRows * StandardRowSeats + 1) : ToString(k) = map[sid]

\* the seat indexes of a row of n seats that have a number, in row order
NumberedIndexes(map, deck, row, n) ==
  SelectSeq([i \in 1..n |-> i - 1], LAMBDA x : SeatIdOf(deck, row, x) \in DOMAIN map)

\* in the entrance row the columns C and D (seat indexes 2 and 3) have no
\* number, every other seat that is not an empty space has one, and the
\* numbers of the row go up by one from seat to seat
EntranceRowNumbered(map, deck, row, n) ==
  LET numbered == NumberedIndexes(map, deck, row, n)
  IN  /\ \A x \in 0..(n - 1) :
           SeatIdOf(deck, row, x) \in DOMAIN map
             <=> (x \notin {2, 3} /\ SeatIdOf(deck, row, x) \notin emptySpaces)
      /\ \A k \in 1..(Len(numbered) - 1) :
           LabelNumber(map, SeatIdOf(deck, row, numbered[k + 1]))
             = LabelNumber(map, SeatIdOf(deck, row, numbered[k])) + 1

\* the first number of the row that follows is the one after the last number
\* of the entrance row
NextRowContinues(map, deck, row, n, nextDeck, nextRow, nextN) ==
  LET numbered == NumberedIndexes(map, deck, row, n)
      following == NumberedIndexes(map, nextDeck, nextRow, nextN)
  IN  (numbered # << >> /\ following # << >>) =>
        LabelNumber(map, SeatIdOf(nextDeck, nextRow, following[1]))
          = LabelNumber(map, SeatIdOf(deck, row, numbered[Len(numbered)])) + 1

\* C19: in an entrance row of the main deck or of the upper deck the columns
\* C and D get no number and do not advance the counter, the other seats
\* that are not empty spaces are numbered consecutively, and the first
\* numbered seat of the next row gets the number after the entrance row's
\* last number
C19_EntranceRows ==
  LET map == seatNumberMap(Config)
      width(row) == seatsInRow(mainDeckRows, lastRowSeats, row)
  IN  /\ \A row \in entranceRows \ tableRows :
           /\ EntranceRowNumbered(map, "main", row, width(row))
           /\ row < mainDeckRows =>
                NextRowContinues(map, "main", row, width(row), "main", row + 1, width(row + 1))
           /\ (row = mainDeckRows /\ hasUpperDeck) =>
                NextRowContinues(map, "main", row, width(row), "upper", 1, StandardRowSeats)
      /\ hasUpperDeck =>
           \A row \in upperDeckEntranceRows :
             /\ EntranceRowNumbered(map, "upper", row, StandardRowSeats)
             /\ row < upperDeckRows =>
                  NextRowContinues(map, "upper", row, StandardRowSeats,
                                   "upper", row + 1, StandardRowSeats)

\* the spec's example with an empty space: row 1 is an entrance row whose seat
\* B was marked empty, row 2 continues from 2, and the upper deck has an
\* entrance row followed by another row
C19_Witness ==
  /\ mainDeckRows = 2
  /\ entranceRows = {1}
  /\ tableRows = {}
  /\ emptySpaces = {"1B"}
  /\ seatNumberMap(Config)["1A"] = "1"
  /\ seatNumberMap(Config)["2A"] = "2"
  /\ hasUpperDeck
  /\ upperDeckRows = 2
  /\ upperDeckEntranceRows = {1}
  /\ seatNumberMap(Config)["U2A"] = "9"

(***************************************************************************)
(* Rendering and numbering.                                                *)
(***************************************************************************)
\* C20: in every configuration the seats rendered as a seat that is not an
\* empty space are the seats that have a computed number: no such seat is
\* handed an empty label and no numbered seat is left out of the rendering
C20_RenderedAreNumbered ==
  /\ RenderedSeats \ emptySpaces = DOMAIN seatNumberMap(Config)
  /\ \A seatId \in RenderedSeats \ emptySpaces : displayLabel(Config, seatId) # ""

\* a table row, an entrance last row of five seats whose fifth seat was
\* marked empty, and an upper deck with an entrance row
C20_Witness ==
  /\ mainDeckRows = 2
  /\ tableRows = {1}
  /\ entranceRows = {2}
  /\ lastRowSeats = DefaultLastRowSeats
  /\ hasUpperDeck
  /\ upperDeckEntranceRows = {1}
  /\ emptySpaces = {"2E"}
  /\ RenderedSeats \ emptySpaces = {"2A", "2B", "U1A", "U1B"}
  /\ displayLabel(Config, "U1B") = "4"

(***************************************************************************)
(* Seat labels.                                                            *)
(***************************************************************************)
\* C21: a stored override that is not a numeral is the label shown for its
\* seat while the seat shows no person, instead of the computed number
C21_FreeTextOverrideShown ==
  \A seatId \in (RenderedSeats \ emptySpaces) \cap DOMAIN seatNumbers :
    (~hasPerson(seatId) /\ ~isNumeric(seatNumbers[seatId]))
      => seatText(seatId) = seatNumbers[seatId]

\* the characters of the computed number of a seat: those of 1 plus the count
\* of numbered seats before it, none for a seat without a number
ComputedText(cfg, seatId) ==
  IF Unnumbered(cfg, Slots(cfg)[SlotIndex(cfg, seatId)]) THEN << >>
  ELSE decimal(Cardinality(NumberedBefore(cfg, SlotIndex(cfg, seatId))) + 1)

\* the override of the seat consists of digits only
DigitsOverride(seatId) ==
  /\ MapHas(seatNumbers, seatId)
  /\ seatNumbers[seatId] # << >>
  /\ Range(seatNumbers[seatId]) \subseteq {"0", "1", "2", "3", "4", "5", "6", "7", "8", "9"}

\* C22: a seat that is not an empty space and shows no person shows its
\* override when the override consists of digits only, its computed number
\* otherwise, and nothing when it has no computed number; a committed edit
\* that is blank removes the override, and the computed number shows again
C22_DisplayedLabel ==
  /\ [](\A seatId \in RenderedSeats \ emptySpaces :
          ~hasPerson(seatId) =>
            seatText(seatId) = IF DigitsOverride(seatId) THEN seatNumbers[seatId]
                               ELSE ComputedText(Config, seatId))
  /\ [][\A seatId \in RenderedSeats \ emptySpaces, number \in TypedNumbers :
          (trim(number) = << >> /\ ~hasPerson(seatId) /\ handleSave(seatId, number))
            => /\ ~MapHas(seatNumbers', seatId)
               /\ seatText(seatId)' = ComputedText(Config, seatId)
               /\ ComputedText(Config, seatId) # << >>]_vars

\* an edit of seat 1C was committed and left it without override while the
\* earlier seat 1A is an empty space: the seat shows its computed number 2
C22_Witness ==
  /\ last.op = "updateSeatNumber"
  /\ ~MapHas(seatNumbers, last.seat)
  /\ emptySpaces = {"1A"}
  /\ last.seat = "1C"
  /\ seatText("1C") = <<"2">>
  /\ ~hasPerson("1C")

(***************************************************************************)
(* The candidate seats of the automatic assignment.                        *)
(***************************************************************************)
\* C23: the seats the automatic assignment draws from are seats that have a
\* computed number in the same configuration (no seat of a table row, no
\* column C or D of an entrance row, no upper deck seat without upper deck),
\* listed in increasing order of their numbers; so it seats nobody on a seat
\* without a number
C23_CandidatesAreNumbered ==
  /\ [](LET map == seatNumberMap(Config)
            seats == getAvailableSeats
        IN  /\ \A i \in 1..Len(seats) : seats[i] \in DOMAIN map
            /\ \A i, j \in 1..Len(seats) :
                 (i < j /\ seats[i] \in DOMAIN map /\ seats[j] \in DOMAIN map)
                   => LabelNumber(map, seats[i]) < LabelNumber(map, seats[j]))
  /\ [][autoAssignPeople =>
          \A seatId \in DOMAIN seatAssignments' \ DOMAIN seatAssignments :
            seatId \in DOMAIN seatNumberMap(Config)]_vars

(***************************************************************************)
(* Seat-to-seat drops and the people seated.                               *)
(***************************************************************************)
\* C24: a drop of a seated person on a seat, the person's own seat included,
\* leaves the set of seated people as it was
C24_SeatToSeatKeepsSeated ==
  [][DropSeatToSeat => MapValues(seatAssignments') = MapValues(seatAssignments)]_vars

(***************************************************************************)
(* The deck controls, the ledger and the seat count.                       *)
(***************************************************************************)
\* the seat ids of the decks as they are now
ExistingSeats ==
  {MainSeatId(row, i) : row \in 1..(mainDeckRows - 1), i \in 0..(StandardRowSeats - 1)}
    \cup {MainSeatId(mainDeckRows, i) : i \in 0..(lastRowSeats - 1)}
    \cup (IF hasUpperDeck
          THEN {UpperSeatId(row, i) : row \in 1..upperDeckRows, i \in 0..(StandardRowSeats - 1)}
          ELSE {})

\* C25: under any interleaving of changes of the row counts, the upper deck
\* switch, the last row width and ledger operations, every seat with a ledger
\* entry is a seat of the decks as they are now
C25_LedgerSeatsExist == DOMAIN seatAssignments \subseteq ExistingSeats

\* C26: Total Seats is the number of seats of the decks as they are now that
\* are not empty spaces, which is the highest computed seat number
C26_TotalSeats ==
  /\ getTotalSeats = Cardinality(ExistingSeats \ emptySpaces)
  /\ getTotalSeats = Cardinality(DOMAIN seatNumberMap(Config))

(***************************************************************************)
(* The edit mode of a seat.                                                *)
(***************************************************************************)
\* C27: opening the edit mode of a seat and committing it with the text
\* untouched leaves the seat number overrides as they were
C27_UntouchedEditKeepsOverrides ==
  [][\A seatId \in RenderedSeats \ emptySpaces :
       ( /\ ~hasPerson(seatId)
         /\ handleSave(seatId,
                       displayResolved(seatNumbers, displayLabel(Config, seatId), seatId)) )
       => seatNumbers' = seatNumbers]_vars

(***************************************************************************)
(* The stored records of a session.                                        *)
(***************************************************************************)
\* C28: a session creates at most one stored record: once a record is known
\* every save is sent as an update of that record, and a save pressed before
\* the answer to the first one arrived creates no second record
C28_OneStoredRecord ==
  /\ Cardinality(DOMAIN store) <= 1
  /\ \A call \in saves : call.target # NoRecord => call.target \in DOMAIN store

\* C29: a share invoked on a configuration that was never saved saves it
\* first, and when that save succeeded the same invocation goes on to read
\* the share token and produce the share link; it stops only when the save
\* failed.
ShareSaved(share) == \E i \in 1..Len(applied) : applied[i] = share.n

C29_ShareAfterSave ==
  [][\A share \in shares :
       (share \notin shares' /\ share.captured = NoRecord /\ ShareSaved(share))
         => last'.op = "shareLink"]_vars

\* p is one of the people of list
InList(list, p) == \E i \in 1..Len(list) : list[i] = p

\* C30: an import whose parse completes after the roster was changed while
\* it was pending keeps those changes: every person added in the meantime
\* is in the roster after the import appended its records, and every person
\* removed in the meantime is absent from it.
C30_ImportKeepsChanges ==
  [][ImportComplete =>
       LET chosen == Head(pendingImport)
       IN  /\ \A i \in 1..Len(people) :
                ~InList(chosen, people[i]) => InList(people', people[i])
           /\ \A i \in 1..Len(chosen) :
                ~InList(people, chosen[i]) => ~InList(people', chosen[i])]_vars

====
